---- MODULE Spec2Model ----
(***************************************************************************)
(* A model of the replay channel: the shared state (message log and the   *)
(* registry of wake handles) behind a mutex, Sender::send, Receiver::new  *)
(* and the retry loop of Receiver::receive over an atomic cursor and a    *)
(* tokio Notify.                                                          *)
(*                                                                         *)
(* The source files disagree on some types; the model reads them so:      *)
(*  - the wake handle is what receive awaits, a tokio Notify              *)
(*    (receiver.rs: `notify: Arc<Notify>`, `notified().await`), although   *)
(*    shared_state.rs builds a Condvar: notify_one with nobody waiting     *)
(*    stores one permit;                                                   *)
(*  - send works under the mutex (sender.rs); receive reads the length of  *)
(*    the log and a slot of it without the mutex (receiver.rs), each read  *)
(*    one atomic step;                                                     *)
(*  - add_receiver takes `&mut self` (shared_state.rs), so a registration  *)
(*    never overlaps the critical section of a send.                       *)
(* Handles: channel.sender() and channel.receiver() clone the Arc of the   *)
(* shared state; a handle that goes out of scope gives its count back.     *)
(* A Receiver can be dropped only while none of its receive calls is being *)
(* polled (idle, or suspended in notified()), which cancels those calls.   *)
(***************************************************************************)
EXTENDS Integers, Sequences, FiniteSets, TLC

\* ---------------------------------------------------------------- bounds
NumSenders == 2
NumCallers == 2
MaxSends == 2

Senders == 1..NumSenders
Callers == 1..NumCallers

\* channel.receiver() is called at most twice: Spec follows a pair of
\* receivers, the specifications with fairness and the one with several
\* callers follow the first of them alone.
Receivers == {1, 2}
OneReceiver == {1}
\* The specification with several callers of one receiver has one thread
\* sending.
OneSender == {1}

\* lock holders: 0 is "unlocked", s > 0 is sender s, Panicker is the thread
\* of tests::error_handling_lock_poisoning that dies holding the guard.
Unlocked == 0
Panicker == -1

VARIABLES
  messages,   \* SharedState.messages: the log, a sequence of payloads
  condvars,   \* SharedState.condvars: the registry, one wake handle per receiver
  lock,       \* holder of the Mutex around the shared state
  poisoned,   \* the Mutex's poison flag
  spc,        \* spc[s]: position of sender s inside send
  nsent,      \* nsent[s]: number of pushes sender s has made
  si,         \* si[s]: position of sender s's iterator over condvars
  ppc,        \* position of the panicking thread
  rlive,      \* rlive[r]: Receiver r is constructed and not dropped
  index,      \* index[r]: Receiver.index, the atomic cursor
  permit,     \* permit[r]: the stored permit of Receiver.notify
  waiters,    \* waiters[r]: callers suspended on Receiver.notify, oldest first
  pc,         \* pc[r][c]: position of caller c inside receive of r
  idx,        \* idx[r][c]: the local `index` of that call
  born,       \* born[r]: log length when r was constructed          (history)
  delivered,  \* delivered[r]: what r's receive calls returned       (history)
  woke,       \* woke[r][c]: the call has come back from notified()  (history)
  orphan,     \* log indices appended while the registry was empty   (history)
  dropLen,    \* dropLen[r]: log length when r was dropped           (history)
  chan,       \* the ReplayChannel object has not been dropped
  strong,     \* Arc::strong_count of the shared state
  freed,      \* the shared state (log and registry) has been deallocated
  slive,      \* slive[s]: Sender handle s exists
  rdropped    \* rdropped[r]: Receiver r was constructed and has been dropped

shared == <<messages, condvars, lock, poisoned>>
svars == <<spc, nsent, si>>
rvars == <<rlive, index, permit, waiters, pc, idx>>
hist == <<born, delivered, woke, orphan, dropLen>>
own == <<chan, strong, freed, slive, rdropped>>
vars == <<messages, condvars, lock, poisoned, spc, nsent, si, ppc,
          rlive, index, permit, waiters, pc, idx, born, delivered, woke, orphan,
          dropLen, chan, strong, freed, slive, rdropped>>

\* ------------------------------------------------------- pure operations
\* The payload of the n-th send of sender s (the tests send distinct values).
Message(s, n) == <<s, n>>

RECURSIVE Sum(_, _)
Sum(f, S) == IF S = {} THEN 0
             ELSE LET x == CHOOSE y \in S : TRUE IN f[x] + Sum(f, S \ {x})

\* VecDeque::push_back
PushFront(q, m) == <<m>> \o q
PushBackOverwrite(q, m) == IF q = <<>> THEN <<m>> ELSE [q EXCEPT ![Len(q)] = m]
PushBack(q, m) == Append(q, m)

\* messages[index] (indices count from 0)
ReadLatest(q, i) == q[Len(q)]
ReadAt(q, i) == q[i + 1]

\* Mutex::lock().unwrap_or_else(|poisoned| poisoned.into_inner()):
\* the guard is taken whether or not the mutex is poisoned.
LockResultUnwrap(p) == IF p THEN "poisoned" ELSE "guard"
LockResult(p) == "guard"

\* Notify::notify_one: wake the oldest waiter, or store the (single) permit.
\* Result: <<waiters, permit>>.
NotifyOneUnlessNobodyWaits(w, p) == IF w # <<>> THEN <<Tail(w), p>> ELSE <<w, p>>
NotifyOne(w, p) == IF w # <<>> THEN <<Tail(w), p>> ELSE <<w, TRUE>>

\* The loop test of receive: `index >= messages.len()`.
CaughtUpStrict(i, len) == i > len
CaughtUp(i, len) == i >= len

\* AtomicUsize::compare_exchange(current, new): <<succeeded, value after>>.
CompareExchangeAdd(cell, current, new) == <<TRUE, cell + 1>>
CompareExchangeBlind(cell, current, new) == <<TRUE, new>>
CompareExchange(cell, current, new) ==
  IF cell = current THEN <<TRUE, new>> ELSE <<FALSE, cell>>

\* index: AtomicUsize::new(0): the cursor of a Receiver made when the log
\* holds len messages.
InitialIndexTail(len) == len
InitialIndex(len) == 0

InSeq(x, q) == \E k \in 1..Len(q) : q[k] = x

\* Drop for Arc: the owner that gives back the last count deallocates.
\* n is the count before the drop.
LastOwner(n) == n = 1

\* SharedState::add_receiver: push the new handle h on the registry.
AddReceiverTwice(q, h) == Append(Append(q, h), h)
AddReceiver(q, h) == Append(q, h)

\* --------------------------------------------------------------- initial
Init ==
  /\ messages = <<>>
  /\ condvars = <<>>
  /\ lock = Unlocked
  /\ poisoned = FALSE
  /\ spc = [s \in Senders |-> "idle"]
  /\ nsent = [s \in Senders |-> 0]
  /\ si = [s \in Senders |-> 0]
  /\ ppc = "idle"
  /\ rlive = [r \in Receivers |-> FALSE]
  /\ index = [r \in Receivers |-> 0]
  /\ permit = [r \in Receivers |-> FALSE]
  /\ waiters = [r \in Receivers |-> <<>>]
  /\ pc = [r \in Receivers |-> [c \in Callers |-> "idle"]]
  /\ idx = [r \in Receivers |-> [c \in Callers |-> 0]]
  /\ born = [r \in Receivers |-> 0]
  /\ delivered = [r \in Receivers |-> <<>>]
  /\ woke = [r \in Receivers |-> [c \in Callers |-> FALSE]]
  /\ orphan = {}
  /\ dropLen = [r \in Receivers |-> 0]
  /\ chan = TRUE
  /\ strong = 1
  /\ freed = FALSE
  /\ slive = [s \in Senders |-> FALSE]
  /\ rdropped = [r \in Receivers |-> FALSE]

\* ---------------------------------------------------------------- Sender
\* channel.sender(): Sender::new(Arc::clone(&self.shared_state))
NewSender(s) ==
  /\ chan
  /\ ~slive[s]
  /\ \A t \in Senders : t < s => slive[t]
  /\ slive' = [slive EXCEPT ![s] = TRUE]
  /\ strong' = strong + 1
  /\ UNCHANGED <<shared, svars, ppc, rvars, hist, chan, freed, rdropped>>

\* The Sender goes out of scope (no send of it is running: send borrows it).
DropSender_closes(s) ==
  /\ slive[s]
  /\ spc[s] = "idle"
  /\ slive' = [slive EXCEPT ![s] = FALSE]
  /\ strong' = strong - 1
  /\ freed' = LastOwner(strong)
  /\ messages' = IF \A t \in Senders \ {s} : ~slive[t] THEN <<>> ELSE messages
  /\ UNCHANGED <<condvars, lock, poisoned, svars, ppc, rvars, hist, chan, rdropped>>
DropSender(s) ==
  /\ slive[s]
  /\ spc[s] = "idle"
  /\ slive' = [slive EXCEPT ![s] = FALSE]
  /\ strong' = strong - 1
  /\ freed' = LastOwner(strong)
  /\ UNCHANGED <<shared, svars, ppc, rvars, hist, chan, rdropped>>

\* The ReplayChannel goes out of scope.
DropChannel ==
  /\ chan
  /\ chan' = FALSE
  /\ strong' = strong - 1
  /\ freed' = LastOwner(strong)
  /\ UNCHANGED <<shared, svars, ppc, rvars, hist, slive, rdropped>>

\* A thread calls sender.send(message).
Send(s) ==
  /\ slive[s]
  /\ spc[s] = "idle"
  /\ Sum(nsent, Senders) + Cardinality({t \in Senders : spc[t] \in {"lock", "push"}}) < MaxSends
  /\ spc' = [spc EXCEPT ![s] = "lock"]
  /\ UNCHANGED <<shared, nsent, si, ppc, rvars, hist>>
  /\ UNCHANGED own

\* let mut state = self.shared_state.lock().unwrap_or_else(..)
S_lock_notify_first(s) ==
  /\ spc[s] = "lock"
  /\ lock = Unlocked
  /\ lock' = s
  /\ spc' = [spc EXCEPT ![s] = "push"]
  /\ waiters' = [r \in Receivers |->
       IF InSeq(r, condvars) THEN NotifyOne(waiters[r], permit[r])[1] ELSE waiters[r]]
  /\ permit' = [r \in Receivers |->
       IF InSeq(r, condvars) THEN NotifyOne(waiters[r], permit[r])[2] ELSE permit[r]]
  /\ UNCHANGED <<messages, condvars, poisoned, nsent, si, ppc, rlive, index, pc, idx, hist>>
  /\ UNCHANGED own
S_lock(s) ==
  /\ spc[s] = "lock"
  /\ lock = Unlocked
  /\ IF LockResult(poisoned) = "guard"
       THEN lock' = s /\ spc' = [spc EXCEPT ![s] = "push"]
       ELSE lock' = lock /\ spc' = [spc EXCEPT ![s] = "panicked"]
  /\ UNCHANGED <<messages, condvars, poisoned, nsent, si, ppc, rvars, hist>>
  /\ UNCHANGED own

\* state.messages.push_back(message.clone()); the iterator over condvars starts
S_push_unless_no_receiver(s) ==
  /\ spc[s] = "push"
  /\ lock = s
  /\ messages' = IF condvars = <<>> THEN messages
                 ELSE PushBack(messages, Message(s, nsent[s] + 1))
  /\ nsent' = [nsent EXCEPT ![s] = @ + 1]
  /\ si' = [si EXCEPT ![s] = 1]
  /\ spc' = [spc EXCEPT ![s] = "notify"]
  /\ orphan' = IF condvars = <<>> THEN orphan \cup {Len(messages)} ELSE orphan
  /\ UNCHANGED <<condvars, lock, poisoned, ppc, rvars, born, delivered, woke>>
  /\ UNCHANGED own
  /\ UNCHANGED dropLen
S_push(s) ==
  /\ spc[s] = "push"
  /\ lock = s
  /\ messages' = PushBack(messages, Message(s, nsent[s] + 1))
  /\ nsent' = [nsent EXCEPT ![s] = @ + 1]
  /\ si' = [si EXCEPT ![s] = 1]
  /\ spc' = [spc EXCEPT ![s] = "notify"]
  /\ orphan' = IF condvars = <<>> THEN orphan \cup {Len(messages)} ELSE orphan
  /\ UNCHANGED <<condvars, lock, poisoned, ppc, rvars, born, delivered, woke>>
  /\ UNCHANGED own
  /\ UNCHANGED dropLen

\* one iteration of `for condvar in &state.condvars { condvar.notify_one(); }`
S_notify_until_stale(s) ==
  /\ spc[s] = "notify"
  /\ lock = s
  /\ si[s] <= Len(condvars)
  /\ LET r == condvars[si[s]]
         n == NotifyOne(waiters[r], permit[r])
     IN IF rdropped[r]
          THEN si' = [si EXCEPT ![s] = Len(condvars) + 1] /\ UNCHANGED <<waiters, permit>>
          ELSE /\ waiters' = [waiters EXCEPT ![r] = n[1]]
               /\ permit' = [permit EXCEPT ![r] = n[2]]
               /\ si' = [si EXCEPT ![s] = @ + 1]
  /\ UNCHANGED <<shared, spc, nsent, ppc, rlive, index, pc, idx, hist>>
  /\ UNCHANGED own
S_notify_rendezvous(s) ==
  /\ spc[s] = "notify"
  /\ lock = s
  /\ si[s] <= Len(condvars)
  /\ waiters[condvars[si[s]]] # <<>>
  /\ LET r == condvars[si[s]]
         n == NotifyOne(waiters[r], permit[r])
     IN /\ waiters' = [waiters EXCEPT ![r] = n[1]]
        /\ permit' = [permit EXCEPT ![r] = n[2]]
  /\ si' = [si EXCEPT ![s] = @ + 1]
  /\ UNCHANGED <<shared, spc, nsent, ppc, rlive, index, pc, idx, hist>>
  /\ UNCHANGED own
S_notify(s) ==
  /\ spc[s] = "notify"
  /\ lock = s
  /\ si[s] <= Len(condvars)
  /\ LET r == condvars[si[s]]
         n == NotifyOne(waiters[r], permit[r])
     IN /\ waiters' = [waiters EXCEPT ![r] = n[1]]
        /\ permit' = [permit EXCEPT ![r] = n[2]]
  /\ si' = [si EXCEPT ![s] = @ + 1]
  /\ UNCHANGED <<shared, spc, nsent, ppc, rlive, index, pc, idx, hist>>
  /\ UNCHANGED own

\* the loop is over; the guard is dropped as send returns
S_unlock(s) ==
  /\ spc[s] = "notify"
  /\ lock = s
  /\ si[s] > Len(condvars)
  /\ lock' = Unlocked
  /\ spc' = [spc EXCEPT ![s] = "idle"]
  /\ UNCHANGED <<messages, condvars, poisoned, nsent, si, ppc, rvars, hist>>
  /\ UNCHANGED own

\* -------------------------------------------------- the panicking thread
\* let _lock = shared_state.lock().unwrap();
P_lock ==
  /\ ppc = "idle"
  /\ lock = Unlocked
  /\ lock' = Panicker
  /\ ppc' = "locked"
  /\ UNCHANGED <<messages, condvars, poisoned, svars, rvars, hist>>
  /\ UNCHANGED own

\* panic!(..): unwinding drops the guard and poisons the mutex
P_panic ==
  /\ ppc = "locked"
  /\ lock = Panicker
  /\ lock' = Unlocked
  /\ poisoned' = TRUE
  /\ ppc' = "dead"
  /\ UNCHANGED <<messages, condvars, svars, rvars, hist>>
  /\ UNCHANGED own

\* -------------------------------------------------------------- Receiver
\* channel.receiver(): Receiver::new registers a fresh wake handle through
\* SharedState::add_receiver(&mut self), which needs exclusive access to the
\* state the mutex guards, and starts the cursor at 0.
NewReceiver_handle_owns(r) ==
  /\ chan
  /\ ~rlive[r]
  /\ r = Len(condvars) + 1
  /\ lock = Unlocked
  /\ condvars' = AddReceiver(condvars, r)
  /\ strong' = strong + 2
  /\ UNCHANGED <<chan, freed, slive, rdropped>>
  /\ rlive' = [rlive EXCEPT ![r] = TRUE]
  /\ index' = [index EXCEPT ![r] = InitialIndex(Len(messages))]
  /\ born' = [born EXCEPT ![r] = Len(messages)]
  /\ UNCHANGED <<messages, lock, poisoned, svars, ppc, permit, waiters, pc, idx,
                 delivered, woke, orphan>>
  /\ UNCHANGED dropLen
NewReceiver(r) ==
  /\ chan
  /\ ~rlive[r]
  /\ r = Len(condvars) + 1
  /\ lock = Unlocked
  /\ condvars' = AddReceiver(condvars, r)
  /\ strong' = strong + 1
  /\ UNCHANGED <<chan, freed, slive, rdropped>>
  /\ rlive' = [rlive EXCEPT ![r] = TRUE]
  /\ index' = [index EXCEPT ![r] = InitialIndex(Len(messages))]
  /\ born' = [born EXCEPT ![r] = Len(messages)]
  /\ UNCHANGED <<messages, lock, poisoned, svars, ppc, permit, waiters, pc, idx,
                 delivered, woke, orphan>>
  /\ UNCHANGED dropLen

\* The Receiver goes out of scope; its suspended receive calls are cancelled
\* with it. Its wake handle stays in the registry (nothing removes it). A
\* cancelled call that notify_one had already taken off the waiters hands
\* its notification back to the Notify.
DropReceiver(r) ==
  /\ rlive[r]
  /\ \A c \in Callers : pc[r][c] \in {"idle", "waiting"}
  /\ rlive' = [rlive EXCEPT ![r] = FALSE]
  /\ rdropped' = [rdropped EXCEPT ![r] = TRUE]
  /\ pc' = [pc EXCEPT ![r] = [c \in Callers |-> "idle"]]
  /\ waiters' = [waiters EXCEPT ![r] = <<>>]
  /\ permit' = [permit EXCEPT ![r] =
                  @ \/ \E c \in Callers : pc[r][c] = "waiting" /\ ~InSeq(c, waiters[r])]
  /\ strong' = strong - 1
  /\ freed' = LastOwner(strong)
  /\ dropLen' = [dropLen EXCEPT ![r] = Len(messages)]
  /\ UNCHANGED <<shared, svars, ppc, index, idx, born, delivered, woke, orphan, chan, slive>>

\* A caller enters receiver.receive() and makes the first
\* `let index = self.index.load(Acquire);`
Receive_await_first(r, c) ==
  /\ rlive[r]
  /\ pc[r][c] = "idle"
  /\ idx' = [idx EXCEPT ![r][c] = index[r]]
  /\ pc' = [pc EXCEPT ![r][c] = "await"]
  /\ woke' = [woke EXCEPT ![r][c] = FALSE]
  /\ UNCHANGED <<shared, svars, ppc, rlive, index, permit, waiters,
                 born, delivered, orphan>>
  /\ UNCHANGED own
  /\ UNCHANGED dropLen
Receive(r, c) ==
  /\ rlive[r]
  /\ pc[r][c] = "idle"
  /\ idx' = [idx EXCEPT ![r][c] = index[r]]
  /\ pc' = [pc EXCEPT ![r][c] = "check"]
  /\ woke' = [woke EXCEPT ![r][c] = FALSE]
  /\ UNCHANGED <<shared, svars, ppc, rlive, index, permit, waiters,
                 born, delivered, orphan>>
  /\ UNCHANGED own
  /\ UNCHANGED dropLen

\* the load at the top of a later turn of the loop
R_load(r, c) ==
  /\ pc[r][c] = "load"
  /\ idx' = [idx EXCEPT ![r][c] = index[r]]
  /\ pc' = [pc EXCEPT ![r][c] = "check"]
  /\ UNCHANGED <<shared, svars, ppc, rlive, index, permit, waiters, hist>>
  /\ UNCHANGED own

\* if index >= self.shared_state.messages.len() { .. }
R_check_wake_first(r, c) ==
  /\ pc[r][c] = "check"
  /\ pc' = [pc EXCEPT ![r][c] =
              IF permit[r] \/ CaughtUp(idx[r][c], Len(messages)) THEN "await" ELSE "cas"]
  /\ UNCHANGED <<shared, svars, ppc, rlive, index, permit, waiters, idx, hist>>
  /\ UNCHANGED own
R_check(r, c) ==
  /\ pc[r][c] = "check"
  /\ pc' = [pc EXCEPT ![r][c] =
              IF CaughtUp(idx[r][c], Len(messages)) THEN "await" ELSE "cas"]
  /\ UNCHANGED <<shared, svars, ppc, rlive, index, permit, waiters, idx, hist>>
  /\ UNCHANGED own

\* self.notify.notified().await, first poll: take the stored permit and go
\* round the loop, or join the waiters and suspend.
R_await(r, c) ==
  /\ pc[r][c] = "await"
  /\ IF permit[r]
       THEN /\ permit' = [permit EXCEPT ![r] = FALSE]
            /\ pc' = [pc EXCEPT ![r][c] = "load"]
            /\ woke' = [woke EXCEPT ![r][c] = TRUE]
            /\ UNCHANGED waiters
       ELSE /\ waiters' = [waiters EXCEPT ![r] = Append(@, c)]
            /\ pc' = [pc EXCEPT ![r][c] = "waiting"]
            /\ UNCHANGED <<permit, woke>>
  /\ UNCHANGED <<shared, svars, ppc, rlive, index, idx, born, delivered, orphan>>
  /\ UNCHANGED own
  /\ UNCHANGED dropLen

\* the suspended call is polled again after notify_one took it off the
\* waiters: notified() completes and the loop continues
R_wake(r, c) ==
  /\ pc[r][c] = "waiting"
  /\ ~InSeq(c, waiters[r])
  /\ pc' = [pc EXCEPT ![r][c] = "load"]
  /\ woke' = [woke EXCEPT ![r][c] = TRUE]
  /\ UNCHANGED <<shared, svars, ppc, rlive, index, permit, waiters, idx,
                 born, delivered, orphan>>
  /\ UNCHANGED own
  /\ UNCHANGED dropLen

\* match self.index.compare_exchange(index, new_index, AcqRel, Acquire)
R_cas_one_cursor(r, c) ==
  /\ pc[r][c] = "cas"
  /\ LET x == CompareExchange(index[r], idx[r][c], idx[r][c] + 1)
     IN /\ index' = [q \in Receivers |-> IF x[1] /\ index[q] < x[2] THEN x[2] ELSE index[q]]
        /\ pc' = [pc EXCEPT ![r][c] = IF x[1] THEN "read" ELSE "load"]
  /\ UNCHANGED <<shared, svars, ppc, rlive, permit, waiters, idx, hist>>
  /\ UNCHANGED own
R_cas(r, c) ==
  /\ pc[r][c] = "cas"
  /\ LET x == CompareExchange(index[r], idx[r][c], idx[r][c] + 1)
     IN /\ index' = [index EXCEPT ![r] = x[2]]
        /\ pc' = [pc EXCEPT ![r][c] = IF x[1] THEN "read" ELSE "load"]
  /\ UNCHANGED <<shared, svars, ppc, rlive, permit, waiters, idx, hist>>
  /\ UNCHANGED own

\* message = self.shared_state.messages[index].clone(); break; message
\* (indexing past the end of the VecDeque panics)
R_read(r, c) ==
  /\ pc[r][c] = "read"
  /\ IF idx[r][c] < Len(messages)
       THEN /\ delivered' = [delivered EXCEPT ![r] =
                   Append(@, [c |-> c, i |-> idx[r][c], m |-> ReadAt(messages, idx[r][c])])]
            /\ pc' = [pc EXCEPT ![r][c] = "idle"]
       ELSE /\ delivered' = delivered
            /\ pc' = [pc EXCEPT ![r][c] = "panicked"]
  /\ UNCHANGED <<shared, svars, ppc, rlive, index, permit, waiters, idx,
                 born, woke, orphan>>
  /\ UNCHANGED own
  /\ UNCHANGED dropLen

\* --------------------------------------------------------- specifications
SenderStep(s) == S_lock(s) \/ S_push(s) \/ S_notify(s) \/ S_unlock(s)
ReceiveStep(r, c) ==
  R_load(r, c) \/ R_check(r, c) \/ R_await(r, c) \/ R_wake(r, c) \/ R_cas(r, c) \/ R_read(r, c)

\* Two receivers, each driven by one caller at a time.
Next ==
  \/ \E s \in Senders : NewSender(s)
  \/ \E s \in Senders : Send(s)
  \/ \E s \in Senders : S_lock(s)
  \/ \E s \in Senders : S_push(s)
  \/ \E s \in Senders : S_notify(s)
  \/ \E s \in Senders : S_unlock(s)
  \/ \E r \in Receivers : NewReceiver(r)
  \/ \E r \in Receivers : Receive(r, 1)
  \/ \E r \in Receivers : R_load(r, 1)
  \/ \E r \in Receivers : R_check(r, 1)
  \/ \E r \in Receivers : R_await(r, 1)
  \/ \E r \in Receivers : R_wake(r, 1)
  \/ \E r \in Receivers : R_cas(r, 1)
  \/ \E r \in Receivers : R_read(r, 1)

Spec == Init /\ [][Next]_vars

\* One receiver driven by one caller at a time.
NextOne ==
  \/ \E s \in Senders : NewSender(s)
  \/ \E s \in Senders : Send(s)
  \/ \E s \in Senders : S_lock(s)
  \/ \E s \in Senders : S_push(s)
  \/ \E s \in Senders : S_notify(s)
  \/ \E s \in Senders : S_unlock(s)
  \/ \E r \in OneReceiver : NewReceiver(r)
  \/ \E r \in OneReceiver : Receive(r, 1)
  \/ \E r \in OneReceiver : R_load(r, 1)
  \/ \E r \in OneReceiver : R_check(r, 1)
  \/ \E r \in OneReceiver : R_await(r, 1)
  \/ \E r \in OneReceiver : R_wake(r, 1)
  \/ \E r \in OneReceiver : R_cas(r, 1)
  \/ \E r \in OneReceiver : R_read(r, 1)

\* A send that has been called runs to its end; a receive that has been
\* called is polled whenever it can go on. Nothing makes a thread call send
\* or receive, or make a receiver.
FairSenders == \A s \in Senders : WF_vars(SenderStep(s))
FairReceivers == \A r \in OneReceiver : WF_vars(ReceiveStep(r, 1))

FairSpec == Init /\ [][NextOne]_vars /\ FairSenders /\ FairReceivers
SendFairSpec == Init /\ [][NextOne]_vars /\ FairSenders

\* The receiver's owner, besides, goes on calling receive.
FairCalls == \A r \in OneReceiver : WF_vars(Receive(r, 1))
DrainSpec == Init /\ [][NextOne]_vars /\ FairSenders /\ FairReceivers /\ FairCalls

\* With the thread that panics while it holds the guard.
NextPoison ==
  \/ NextOne
  \/ P_lock
  \/ P_panic

PoisonSpec ==
  Init /\ [][NextPoison]_vars /\ FairSenders /\ FairReceivers /\ WF_vars(P_panic)

\* One Receiver shared by several callers of receive, and one sender.
NextShared ==
  \/ \E s \in OneSender : NewSender(s)
  \/ \E s \in OneSender : Send(s)
  \/ \E s \in OneSender : S_lock(s)
  \/ \E s \in OneSender : S_push(s)
  \/ \E s \in OneSender : S_notify(s)
  \/ \E s \in OneSender : S_unlock(s)
  \/ \E r \in OneReceiver : NewReceiver(r)
  \/ \E r \in OneReceiver, c \in Callers : Receive(r, c)
  \/ \E r \in OneReceiver, c \in Callers : R_load(r, c)
  \/ \E r \in OneReceiver, c \in Callers : R_check(r, c)
  \/ \E r \in OneReceiver, c \in Callers : R_await(r, c)
  \/ \E r \in OneReceiver, c \in Callers : R_wake(r, c)
  \/ \E r \in OneReceiver, c \in Callers : R_cas(r, c)
  \/ \E r \in OneReceiver, c \in Callers : R_read(r, c)

SharedSpec == Init /\ [][NextShared]_vars

\* The same, the sender's and each caller's started calls being run fairly.
SharedFairSpec ==
  /\ Init /\ [][NextShared]_vars
  /\ \A s \in OneSender : WF_vars(SenderStep(s))
  /\ \A r \in OneReceiver : \A c \in Callers : WF_vars(ReceiveStep(r, c))

\* Two receivers and the senders, with handles and the channel going out of
\* scope.
NextDrop ==
  \/ Next
  \/ \E s \in Senders : DropSender(s)
  \/ \E r \in Receivers : DropReceiver(r)
  \/ DropChannel

DropSpec == Init /\ [][NextDrop]_vars

\* One receiver and the senders, with handles and the channel going out of
\* scope.
NextOneDrop ==
  \/ NextOne
  \/ \E s \in Senders : DropSender(s)
  \/ \E r \in OneReceiver : DropReceiver(r)
  \/ DropChannel

OneDropSpec == Init /\ [][NextOneDrop]_vars

\* Two receivers that can go out of scope, and one sender.
NextReceiverDrop ==
  \/ \E s \in OneSender : NewSender(s)
  \/ \E s \in OneSender : Send(s)
  \/ \E s \in OneSender : S_lock(s)
  \/ \E s \in OneSender : S_push(s)
  \/ \E s \in OneSender : S_notify(s)
  \/ \E s \in OneSender : S_unlock(s)
  \/ \E r \in Receivers : NewReceiver(r)
  \/ \E r \in Receivers : DropReceiver(r)
  \/ \E r \in Receivers : Receive(r, 1)
  \/ \E r \in Receivers : R_load(r, 1)
  \/ \E r \in Receivers : R_check(r, 1)
  \/ \E r \in Receivers : R_await(r, 1)
  \/ \E r \in Receivers : R_wake(r, 1)
  \/ \E r \in Receivers : R_cas(r, 1)
  \/ \E r \in Receivers : R_read(r, 1)

ReceiverDropSpec ==
  /\ Init /\ [][NextReceiverDrop]_vars
  /\ \A s \in OneSender : WF_vars(SenderStep(s))
  /\ \A r \in Receivers : WF_vars(ReceiveStep(r, 1))

\* ------------------------------------------------------------ properties
\* The values one receiver has returned, in the order its calls returned.
Values(r) == [j \in 1..Len(delivered[r]) |-> delivered[r][j].m]

IsPrefix(a, b) == Len(a) <= Len(b) /\ \A j \in 1..Len(a) : a[j] = b[j]

\* C1 - Order preservation: the j-th receive a receiver completes returns the
\* message at log index j-1, so what it has returned so far is exactly the
\* prefix of the log of that length: nothing skipped, duplicated or reordered.
OrderPreservation ==
  \A r \in Receivers :
    /\ Len(delivered[r]) <= Len(messages)
    /\ \A j \in 1..Len(delivered[r]) :
         /\ delivered[r][j].i = j - 1
         /\ j <= Len(messages) /\ delivered[r][j].m = messages[j]

\* A receiver has returned two messages of different senders, and more was
\* sent than it has returned at some point (sends and receives interleave).
OrderPreservationWitness ==
  \E r \in Receivers :
    /\ Len(delivered[r]) >= 2
    /\ delivered[r][1].m[1] # delivered[r][2].m[1]
    /\ born[r] = 1
    /\ \E q \in Receivers : q # r /\ Len(delivered[q]) = 1

\* C2 - Replay completeness: a receiver made when the log holds N messages
\* starts at cursor 0, its first N receives return log[0..N) in order without
\* ever suspending, and a message sent after its creation is returned only
\* after those N, however far the other receivers are.
ReplayCompleteness ==
  \A r \in Receivers :
    /\ (rlive[r] /\ delivered[r] = <<>> /\ pc[r][1] \in {"idle", "check", "cas"}) => index[r] = 0
    /\ \A j \in 1..Len(delivered[r]) :
         /\ j <= born[r] => (delivered[r][j].i = j - 1 /\ delivered[r][j].m = messages[j])
         /\ delivered[r][j].i >= born[r] => j > born[r]
    /\ Len(delivered[r]) < born[r] =>
         (pc[r][1] \in {"idle", "check", "cas", "read"} /\ ~woke[r][1])

\* A receiver made after two sends has replayed both, while an older receiver
\* had drained the log before the newcomer was made.
ReplayCompletenessWitness ==
  \E r, q \in Receivers :
    /\ born[q] = 0 /\ index[q] >= 2
    /\ born[r] >= 2 /\ Len(delivered[r]) = born[r]

\* C3 - No loss under concurrent senders: every push lands on an index of
\* its own, the log is as long as the number of pushes made, and a receiver
\* returns each sent value at most once, and exactly once when it has drained
\* the log.
NoLostMessages ==
  /\ Len(messages) = Sum(nsent, Senders)
  /\ \A s \in Senders : \A n \in 1..nsent[s] :
       Cardinality({k \in 1..Len(messages) : messages[k] = Message(s, n)}) = 1
  /\ \A r \in Receivers :
       /\ \A j, k \in 1..Len(delivered[r]) : j # k => delivered[r][j].m # delivered[r][k].m
       /\ (index[r] = Len(messages) /\ pc[r][1] # "read") =>
            \A k \in 1..Len(messages) :
              Cardinality({j \in 1..Len(delivered[r]) : delivered[r][j].m = messages[k]}) = 1

\* Sender 2 got the lock first although sender 1 sends too; sender 1 is still
\* inside send after its push and a receiver has already returned both values.
NoLostMessagesWitness ==
  /\ Len(messages) >= 2 /\ messages[1][1] = 2 /\ messages[2][1] = 1
  /\ spc[1] = "notify"
  /\ \E r \in Receivers : Len(delivered[r]) = 2

\* C4 - Suspend safety: a call goes on to claim and read an index only when
\* that index is below the log length; a call that finds the receiver caught
\* up (also after a wake) suspends, and no call reads past the end of the log.
SuspendSafety ==
  \A r \in Receivers :
    /\ pc[r][1] # "panicked"
    /\ pc[r][1] \in {"cas", "read"} => idx[r][1] < Len(messages)
    /\ pc[r][1] \in {"await", "waiting"} => index[r] <= Len(messages)
    /\ \A j \in 1..Len(delivered[r]) : delivered[r][j].i < Len(messages)

\* A call took a signal left over from a send whose message was already
\* drained, found the receiver still caught up and suspended again.
SuspendSafetyWitness ==
  \E r \in Receivers :
    /\ woke[r][1] /\ pc[r][1] = "waiting"
    /\ index[r] = Len(messages) /\ Len(delivered[r]) >= 1

\* C6 - Multi-receiver independence: a step of receive on one receiver
\* leaves the log, the registry and every other receiver's cursor and
\* deliveries alone, so the values any two receivers have returned agree on
\* their common length.
ReceiverIndependence ==
  /\ [](\A r, q \in Receivers : IsPrefix(Values(r), Values(q)) \/ IsPrefix(Values(q), Values(r)))
  /\ [][\A r \in Receivers :
         (pc'[r] # pc[r] \/ idx'[r] # idx[r]) =>
           /\ messages' = messages
           /\ condvars' = condvars
           /\ \A q \in Receivers \ {r} :
                index'[q] = index[q] /\ delivered'[q] = delivered[q] /\ pc'[q] = pc[q]]_vars

\* Two receivers are both in the middle of a receive, each having returned
\* one message already.
ReceiverIndependenceWitness ==
  \E r, q \in Receivers :
    /\ Len(delivered[r]) = 1 /\ Len(delivered[q]) = 1
    /\ pc[r][1] = "read" /\ pc[q][1] = "cas"

Pending(r) == pc[r][1] # "idle"

SendTerminates ==
  \A s \in Senders : (spc[s] # "idle") ~> (spc[s] = "idle")

\* Every send has ended although the one receiver never called receive and
\* lags the whole log behind.
SendTerminatesWitness ==
  /\ Len(messages) >= 2
  /\ \A s \in Senders : spc[s] = "idle"
  /\ \E r \in Receivers : rlive[r] /\ born[r] = 0 /\ index[r] = 0 /\ pc[r][1] = "idle"

\* C7 - Poisoned-lock recovery: no send panics on the poisoned mutex; a send
\* waiting for it gets the guard and ends, its push extends the log by its
\* message at the next index, and a pending receive with a message to read
\* still returns.
PoisonRecovery ==
  /\ [](\A s \in Senders : spc[s] # "panicked")
  /\ \A s \in Senders : (poisoned /\ spc[s] # "idle") ~> (spc[s] = "idle")
  /\ [][\A s \in Senders :
         (poisoned /\ spc[s] = "push" /\ spc'[s] # spc[s]) =>
           messages' = Append(messages, Message(s, nsent[s] + 1))]_vars
  /\ \A r \in Receivers :
       (poisoned /\ Pending(r) /\ index[r] < Len(messages)) ~> ~Pending(r)

\* A sender holds the guard of the poisoned mutex, has pushed and has
\* signalled the whole registry, and a receiver has returned its message.
PoisonRecoveryWitness ==
  /\ poisoned
  /\ \E s \in Senders :
       /\ lock = s /\ spc[s] = "notify"
       /\ Len(condvars) >= 1 /\ si[s] > Len(condvars)
       /\ \E r \in Receivers : Len(delivered[r]) = Len(messages)

\* The log indices the callers of r have claimed: returned, or about to be read.
Returned(r) == {delivered[r][j].i : j \in 1..Len(delivered[r])}
Reading(r) == {c \in Callers : pc[r][c] = "read"}

\* C10 - Exactly-once across racing callers: every index below the cursor is
\* claimed by exactly one caller (returned once, or about to be read by one
\* caller), what is returned for an index is the message at that index, and a
\* caller whose compare-exchange fails goes back to load the cursor without
\* returning or moving it.
ExactlyOnce ==
  /\ [](\A r \in Receivers :
         /\ \A j, k \in 1..Len(delivered[r]) : j # k => delivered[r][j].i # delivered[r][k].i
         /\ \A j \in 1..Len(delivered[r]) :
              delivered[r][j].m = messages[delivered[r][j].i + 1]
         /\ \A c, d \in Reading(r) : c # d => idx[r][c] # idx[r][d]
         /\ \A c \in Reading(r) : idx[r][c] \notin Returned(r)
         /\ Returned(r) \cup {idx[r][c] : c \in Reading(r)} = 0..(index[r] - 1))
  /\ [][\A r \in Receivers : \A c \in Callers :
         (pc[r][c] = "cas" /\ pc'[r][c] # "cas" /\ index[r] # idx[r][c]) =>
           (pc'[r][c] = "load" /\ index' = index /\ delivered' = delivered)]_vars

\* A caller lost the race for an index (it is back at the load without
\* having been woken) and the other caller has returned that index.
ExactlyOnceWitness ==
  \E r \in Receivers : \E c, d \in Callers :
    /\ c # d
    /\ pc[r][c] = "load" /\ ~woke[r][c]
    /\ \E j \in 1..Len(delivered[r]) : delivered[r][j].c = d /\ delivered[r][j].i = idx[r][c]

\* C11 - Dropped receiver is harmless: with a receiver dropped (also while
\* its receive was suspended) no send panics, a started send ends although
\* it signals the stale handle, its push still appends its message, and a
\* live receiver with a pending receive and a message to read still returns.
DroppedReceiverHarmless ==
  /\ [](\A s \in Senders : spc[s] # "panicked")
  /\ \A s \in OneSender :
       ((\E q \in Receivers : rdropped[q]) /\ spc[s] # "idle") ~> (spc[s] = "idle")
  /\ [][\A s \in Senders :
         ((\E q \in Receivers : rdropped[q]) /\ spc[s] = "push" /\ spc'[s] # spc[s]) =>
           messages' = Append(messages, Message(s, nsent[s] + 1))]_vars
  /\ \A r \in Receivers :
       ((\E q \in Receivers : rdropped[q]) /\ rlive[r] /\ Pending(r)
          /\ index[r] < Len(messages)) ~> ~Pending(r)

\* The first receiver was dropped while suspended, before anything was sent;
\* a later send has signalled its stale handle and ended, and the second
\* receiver, woken by that send, has returned the whole log.
DroppedReceiverHarmlessWitness ==
  /\ rdropped[1] /\ born[1] = 0 /\ dropLen[1] = 0 /\ delivered[1] = <<>> /\ permit[1]
  /\ rlive[2] /\ Len(messages) >= 1 /\ Len(delivered[2]) = Len(messages)
  /\ condvars = <<1, 2>>
  /\ \A s \in Senders : spc[s] = "idle"

\* The live handles on the shared state: the channel object, the senders,
\* the receivers.
Owners ==
  (IF chan THEN 1 ELSE 0) + Cardinality({s \in Senders : slive[s]})
    + Cardinality({r \in Receivers : rlive[r]})

DroppingSendersPreservesHistory ==
  /\ [][(\E s \in Senders : slive[s] /\ ~slive'[s]) =>
          /\ messages' = messages /\ condvars' = condvars /\ index' = index
          /\ pc' = pc /\ permit' = permit /\ waiters' = waiters
          /\ delivered' = delivered /\ rlive' = rlive]_vars
  /\ []((chan \/ \E r \in Receivers : rlive[r]) => ~freed)
  /\ [](\A r \in OneReceiver :
          (rlive[r] /\ pc[r][1] = "idle") => ENABLED Receive(r, 1))
  /\ [](\A r \in OneReceiver : rlive[r] => IsPrefix(Values(r), messages))

\* No sender is left, and the receiver, created when both messages were
\* already in the log, has returned the complete history.
DroppingSendersPreservesHistoryWitness ==
  /\ \A s \in Senders : ~slive[s]
  /\ rlive[1] /\ born[1] = MaxSends /\ Len(messages) = MaxSends
  /\ Values(1) = messages

\* C14 - Append-only log: no step shortens the log or changes a stored
\* message, a step changes the length by at most 1, the push of a send
\* lengthens it by exactly 1, and whatever receivers have returned for one
\* index, at whatever time, is the same value, the one stored there.
AppendOnlyLog ==
  /\ [][/\ Len(messages') >= Len(messages)
        /\ Len(messages') <= Len(messages) + 1
        /\ \A i \in 1..Len(messages) : messages'[i] = messages[i]
        /\ \A s \in Senders :
             (spc[s] = "push" /\ spc'[s] # spc[s]) =>
               Len(messages') = Len(messages) + 1]_vars
  /\ [](\A r \in Receivers, q \in Receivers :
          \A j \in 1..Len(delivered[r]), k \in 1..Len(delivered[q]) :
            delivered[r][j].i = delivered[q][k].i =>
              /\ delivered[r][j].m = delivered[q][k].m
              /\ delivered[r][j].m = messages[delivered[r][j].i + 1])

\* Both receivers have returned index 0, the second one created and reading
\* after the log had grown to its full length.
AppendOnlyLogWitness ==
  /\ Len(messages) = MaxSends /\ born[2] = MaxSends
  /\ delivered[1] # <<>> /\ delivered[2] # <<>>
  /\ delivered[1][1].i = 0 /\ delivered[2][1].i = 0

\* C15 - Cursor invariant: every receiver's cursor lies between 0 and the
\* log length; no step lowers it or raises it by more than 1, and the step
\* that raises it is the compare-exchange of one caller that had loaded the
\* current value; the cursor counts exactly the calls that have returned
\* plus the calls that have claimed a slot and not returned yet, so checking,
\* suspended and retrying calls have not moved it.
CursorInvariant ==
  /\ [](\A r \in Receivers : index[r] \in 0..Len(messages))
  /\ [][\A r \in Receivers :
         /\ index'[r] \in {index[r], index[r] + 1}
         /\ index'[r] = index[r] + 1 =>
              \E c \in Callers :
                /\ pc[r][c] = "cas" /\ pc'[r][c] = "read" /\ idx[r][c] = index[r]
                /\ \A d \in Callers \ {c} : pc'[r][d] = pc[r][d]
         /\ Len(delivered'[r]) # Len(delivered[r]) =>
              Len(delivered'[r]) = Len(delivered[r]) + 1 /\ index'[r] = index[r]]_vars
  /\ [](\A r \in Receivers :
          index[r] = Len(delivered[r]) + Cardinality(Reading(r)))

\* One call has returned, a second caller has claimed the next slot and not
\* read it yet, and the other caller is suspended: the cursor is 2.
CursorInvariantWitness ==
  \E c, d \in Callers :
    /\ c # d /\ pc[1][c] = "read" /\ pc[1][d] = "waiting"
    /\ Len(delivered[1]) = 1 /\ index[1] = 2

\* The positions of the registry that hold the handle of receiver r.
HandlesOf(r) == {k \in 1..Len(condvars) : condvars[k] = r}

\* C16 (as stated) - Wake-registry invariant: every handle in the registry
\* belongs to exactly one live receiver, and every live receiver has exactly
\* one handle in it.
WakeRegistryLive ==
  /\ \A k \in 1..Len(condvars) : condvars[k] \in Receivers /\ rlive[condvars[k]]
  /\ \A r \in Receivers : Cardinality(HandlesOf(r)) = (IF rlive[r] THEN 1 ELSE 0)

\* C16 - Wake-registry invariant: every handle in the registry belongs to
\* exactly one receiver that was constructed, live or dropped since; each
\* construction appends exactly one fresh handle, a receiver never
\* constructed has none, and no step (drop and send included) removes,
\* moves or replaces a handle.
WakeRegistry ==
  /\ [](\A k \in 1..Len(condvars) :
          condvars[k] \in Receivers /\ (rlive[condvars[k]] \/ rdropped[condvars[k]]))
  /\ [](\A r \in Receivers :
          Cardinality(HandlesOf(r)) = (IF rlive[r] \/ rdropped[r] THEN 1 ELSE 0))
  /\ [][/\ IsPrefix(condvars, condvars')
        /\ \A r \in Receivers :
             (~rlive[r] /\ rlive'[r]) =>
               condvars' = Append(condvars, r) /\ HandlesOf(r) = {}
        /\ (\A r \in Receivers : rlive[r] \/ ~rlive'[r]) => condvars' = condvars]_vars

\* After two constructions, the drop of the first receiver and a send, the
\* registry still holds both handles, the first one of no live receiver.
WakeRegistryWitness ==
  /\ condvars = <<1, 2>> /\ rdropped[1] /\ ~rlive[1] /\ rlive[2]
  /\ Len(messages) > dropLen[1]

\* The handle of receiver r is signalled in this step: a suspended call is
\* taken off its waiters or a permit is stored, the receiver staying live.
Signalled(r) ==
  /\ rlive[r] /\ rlive'[r]
  /\ \/ Len(waiters'[r]) < Len(waiters[r])
     \/ ~permit[r] /\ permit'[r] /\ pc'[r] = pc[r]

\* C17 - Visible-before-wake ordering: a send that is in its fan-out has
\* its message in the log, at an index below the length, and it stays
\* there; every step that signals a wake handle is taken by a sender in its
\* fan-out, holding the lock, whose message is already in the log, so the
\* length any receiver reads from then on exceeds that message's index.
VisibleBeforeWake ==
  /\ [](\A s \in Senders :
          spc[s] = "notify" =>
            /\ nsent[s] >= 1
            /\ \E k \in 1..Len(messages) : messages[k] = Message(s, nsent[s]))
  /\ [][(\E r \in Receivers : Signalled(r)) =>
          \E s \in Senders :
            /\ spc[s] = "notify" /\ lock = s /\ si'[s] = si[s] + 1
            /\ \E k \in 1..Len(messages) :
                 messages[k] = Message(s, nsent[s]) /\ messages'[k] = messages[k]
            /\ Len(messages') >= Len(messages)]_vars

\* A sender in its fan-out has just taken the suspended call of the first
\* receiver off its waiters; the log is already longer than the cursor
\* that call had loaded.
VisibleBeforeWakeWitness ==
  \E s \in Senders :
    /\ spc[s] = "notify" /\ lock = s /\ si[s] = 2
    /\ rlive[1] /\ pc[1][1] = "waiting" /\ waiters[1] = <<>> /\ ~permit[1]
    /\ Len(messages) = idx[1][1] + 1

\* C18 - Draining never suspends: the call of a receiver's sole caller holds
\* the cursor's value at its length test; if that is below the log length
\* the test leads to the compare-exchange, which succeeds and advances the
\* cursor by 1, and then to the read, which returns the message at the old
\* cursor: no step of the three suspends, touches the wake handle or waits
\* for a sender, whether a signal is pending or not.
DrainingNeverSuspends ==
  /\ [](\A r \in Receivers :
          pc[r][1] \in {"check", "cas"} => idx[r][1] = index[r])
  /\ [](\A r \in Receivers :
          (rlive[r] /\ pc[r][1] \in {"check", "cas", "read"}) => ENABLED ReceiveStep(r, 1))
  /\ [][\A r \in Receivers :
         /\ (pc[r][1] = "idle" /\ pc'[r][1] # "idle") =>
              pc'[r][1] = "check" /\ idx'[r][1] = index[r]
         /\ (pc[r][1] = "check" /\ idx[r][1] < Len(messages) /\ pc'[r][1] # "check") =>
              pc'[r][1] = "cas" /\ permit'[r] = permit[r] /\ waiters'[r] = waiters[r]
         /\ (pc[r][1] = "cas" /\ pc'[r][1] # "cas") =>
              /\ pc'[r][1] = "read" /\ index'[r] = idx[r][1] + 1
              /\ permit'[r] = permit[r] /\ waiters'[r] = waiters[r]
         /\ (pc[r][1] = "read" /\ pc'[r][1] # "read") =>
              /\ pc'[r][1] = "idle"
              /\ delivered'[r] = Append(delivered[r],
                    [c |-> 1, i |-> idx[r][1], m |-> messages[idx[r][1] + 1]])
              /\ permit'[r] = permit[r] /\ waiters'[r] = waiters[r]]_vars

\* The receiver has returned the whole log, its last call without having
\* been suspended or woken, while a signal is still pending on its handle
\* and no sender is running or can send again.
DrainingNeverSuspendsWitness ==
  /\ rlive[1] /\ pc[1][1] = "idle" /\ ~woke[1][1] /\ permit[1]
  /\ Len(messages) = MaxSends /\ Len(delivered[1]) = MaxSends
  /\ \A s \in Senders : spc[s] = "idle"

\* No send is running and none can start any more.
SendsOver ==
  /\ \A s \in Senders : spc[s] = "idle"
  /\ Sum(nsent, Senders) = MaxSends

\* At least two messages lie beyond the cursor of receiver r, and the sends
\* have left it one wake at most: a single stored permit while it is between
\* two calls or about to await, or the one notification that took its
\* suspended call off the waiters.
Coalesced(r) ==
  /\ rlive[r]
  /\ Len(messages) >= index[r] + 2
  /\ \/ pc[r][1] \in {"idle", "await"} /\ permit[r]
     \/ pc[r][1] = "waiting" /\ ~InSeq(1, waiters[r])

\* C19 - Coalesced wakes lose nothing: when the sends are over and have
\* left a receiver k >= 2 unread messages and a single wake, the receiver's
\* following calls return every message of the log, in log order (the
\* receiver's calls being made and polled fairly); and whenever the log has
\* n messages the receiver comes to have returned n.
CoalescedWakesLoseNothing ==
  /\ \A r \in OneReceiver :
       (Coalesced(r) /\ SendsOver) ~>
         (Len(delivered[r]) = Len(messages) /\ Values(r) = messages)
  /\ \A r \in OneReceiver : \A n \in 1..MaxSends :
       (rlive[r] /\ Len(messages) >= n) ~> (Len(delivered[r]) >= n)
  /\ [](\A r \in OneReceiver : IsPrefix(Values(r), messages))

\* Two sends ended while the receiver was about to await and stored one
\* permit between them; the call took it and has returned the first
\* message: the second is left with no wake pending and no send to come.
CoalescedWakesLoseNothingWitness ==
  /\ SendsOver /\ Len(messages) = MaxSends /\ born[1] = 0
  /\ rlive[1] /\ pc[1][1] = "idle" /\ woke[1][1] /\ ~permit[1] /\ waiters[1] = <<>>
  /\ Len(delivered[1]) = 1 /\ index[1] = 1

\* C20 - Progress for concurrent callers of one receiver: a caller that is
\* suspended in receive while the receiver's cursor is below the log length
\* does not stay so for ever (the sender's and the callers' steps being
\* taken fairly).
ConcurrentCallersProgress ==
  \A r \in OneReceiver : \A c \in Callers :
    (rlive[r] /\ pc[r][c] = "waiting" /\ index[r] < Len(messages)) ~>
      (pc[r][c] # "waiting" \/ index[r] >= Len(messages))

\* A caller is suspended on the waiters with no permit stored and no send
\* running, the other caller has returned, and a message lies beyond the
\* cursor.
ConcurrentCallersStuck ==
  \E c, d \in Callers :
    /\ c # d /\ rlive[1]
    /\ pc[1][c] = "waiting" /\ InSeq(c, waiters[1]) /\ ~permit[1]
    /\ pc[1][d] = "idle" /\ \E j \in 1..Len(delivered[1]) : delivered[1][j].c = d
    /\ \A s \in Senders : spc[s] = "idle"
    /\ index[1] < Len(messages)
====
